---- MODULE Spec2Model ----
(***************************************************************************)
(* Model of app.py: the Streamlit script "Chat with YouTube Video".        *)
(*                                                                         *)
(* The script is re-run from top to bottom on every user interaction.      *)
(* st.session_state (app, db_path, current_video_url, messages) and the    *)
(* widget values (api_key_input, video_url_input) survive between runs.    *)
(* Every action below is one complete run of the script: the credential    *)
(* block (lines 108-125), then the Load Video handler (130-154) when the   *)
(* button was clicked, then the chat interface (160-202).                  *)
(*                                                                         *)
(* Strings that the code inspects (URLs) are sequences of one-character    *)
(* strings, so that split / in / len are computed as Python computes them. *)
(***************************************************************************)
EXTENDS Integers, Sequences, FiniteSets, TLC

VARIABLES
    app,                \* st.session_state.app: None or the App built by embedchain_bot
    db_path,            \* st.session_state.db_path: 0 (None) or the number of a temp dir
    current_video_url,  \* st.session_state.current_video_url ("" is <<>>)
    messages,           \* st.session_state.messages
    api_key_input,      \* value of the "Google API Key" text input
    video_url_input,    \* value of the "Enter YouTube Video URL" text input
    load_disabled,      \* disabled= of the Load Video button as last rendered
    dirs_made,          \* number of directories tempfile.mkdtemp has created
    constructed,        \* number of calls of embedchain_bot
    kb,                 \* URLs whose transcript is in the vector store at db_path
    notices,            \* st.success/info/warning/error emitted by the last run
    calls,              \* external calls made by the last run
    last,               \* what the last run was asked to do and how it went
    msg_video,          \* msg_video[i]: current_video_url when messages[i] was appended
    ever_failed,        \* some run's credential block ended in its except branch
    keys_seen,          \* non-empty credentials the credential block has run with
    ex_url,             \* input of the standalone run of extract_video_id
    ex_res,             \* its result, None before the call
    fe_url,             \* input of the standalone run of fetch_video_data
    fe_env,             \* what the transcript service does for that run
    fe_res              \* its result, None before the call

vars == <<app, db_path, current_video_url, messages, api_key_input,
          video_url_input, load_disabled, dirs_made, constructed, kb,
          notices, calls, last, msg_video, ever_failed, keys_seen,
          ex_url, ex_res, fe_url, fe_env, fe_res>>

session_vars == <<app, db_path, current_video_url, messages, api_key_input,
                  video_url_input, load_disabled, dirs_made, constructed, kb,
                  notices, calls, last, msg_video, ever_failed, keys_seen>>

(***************************************************************************)
(* Python string operations on sequences of characters.                    *)
(***************************************************************************)

\* s[i:] (1-based: the characters from position i on)
Drop(s, i) == SubSeq(s, i, Len(s))

\* position of the first occurrence of sub in s, 0 if there is none
FirstAt(s, sub) ==
    LET hits == { i \in 1..(Len(s) - Len(sub) + 1) :
                     SubSeq(s, i, i + Len(sub) - 1) = sub }
    IN  IF hits = {} THEN 0
        ELSE CHOOSE i \in hits : \A j \in hits : i <= j

\* sub in s
Contains(s, sub) == FirstAt(s, sub) # 0

\* s.split(sep): the pieces between the non-overlapping occurrences of sep,
\* scanned from the left
RECURSIVE Split(_, _)
Split(s, sep) ==
    LET i == FirstAt(s, sep)
    IN  IF i = 0 THEN <<s>>
        ELSE <<SubSeq(s, 1, i - 1)>> \o Split(Drop(s, i + Len(sep)), sep)

\* xs[-1]
LastOf(xs) == xs[Len(xs)]

\* xs[0]
FirstOf(xs) == xs[1]

RECURSIVE Concat(_)
Concat(xs) == IF xs = <<>> THEN <<>> ELSE Head(xs) \o Concat(Tail(xs))

(***************************************************************************)
(* String literals of extract_video_id.                                    *)
(***************************************************************************)
WatchMarker  == <<"y","o","u","t","u","b","e",".","c","o","m","/","w","a","t","c","h","?","v","=">>
ShortsMarker == <<"y","o","u","t","u","b","e",".","c","o","m","/","s","h","o","r","t","s","/">>
ShortLinkMarker == <<"y","o","u","t","u",".","b","e","/">>
SepV      == <<"v","=">>
SepAmp    == <<"&">>
SepQ      == <<"?">>
SepShorts == <<"/","s","h","o","r","t","s","/">>
SepSlash  == <<"/">>
IdLength  == 11

FallbackAccepts_AnyLength(parts, potential_id) == Len(parts) > 1

\* lines 57 and 59: the fallback has a last segment of the standard length
FallbackAccepts(parts, potential_id) ==
    Len(parts) > 1 /\ Len(potential_id) = IdLength

\* extract_video_id: [ok |-> TRUE, id, warned] for a return,
\* [ok |-> FALSE, ...] for raise ValueError; warned is the st.warning of line 54
extract_video_id(video_url) ==
    IF Contains(video_url, WatchMarker)
    THEN [ok |-> TRUE, warned |-> FALSE,
          id |-> FirstOf(Split(LastOf(Split(video_url, SepV)), SepAmp))]
    ELSE IF Contains(video_url, ShortsMarker)
    THEN [ok |-> TRUE, warned |-> FALSE,
          id |-> FirstOf(Split(FirstOf(Split(LastOf(Split(video_url, SepShorts)), SepQ)), SepAmp))]
    ELSE IF Contains(video_url, ShortLinkMarker)
    THEN [ok |-> TRUE, warned |-> FALSE,
          id |-> FirstOf(Split(FirstOf(Split(LastOf(Split(video_url, ShortLinkMarker)), SepQ)), SepAmp))]
    ELSE LET parts == Split(video_url, SepSlash)
             potential_id == FirstOf(Split(FirstOf(Split(LastOf(parts), SepQ)), SepAmp))
         IN  IF FallbackAccepts(parts, potential_id)
             THEN [ok |-> TRUE, warned |-> TRUE, id |-> potential_id]
             ELSE [ok |-> FALSE, warned |-> TRUE, id |-> <<>>]

(***************************************************************************)
(* Inputs of the session model.                                            *)
(***************************************************************************)
MaxDirs  == 2     \* temp directories a session may create
MaxTurns == 4     \* length the conversation may reach

Keys == { <<"k", "1">>, <<"k", "2">> }   \* credentials the user may type
NoKey == <<>>                       \* the empty text input ""
NoUrl == <<>>                       \* ""

UrlA   == <<"y","o","u","t","u",".","b","e","/","A">>
UrlB   == <<"y","o","u","t","u","b","e",".","c","o","m","/","w","a","t","c","h","?","v","=","B","&","t","=","1">>
UrlBad == <<"n","o","t","a","u","r","l">>
SessionUrls == {UrlA, UrlB, UrlBad}
Prompts == {"question"}

\* st.session_state.app is None
NoApp == [api_key |-> NoKey, dir |-> 0]

\* embedchain_bot: the App configured with the llm api_key and the chroma dir
embedchain_bot(path, api_key) == [api_key |-> api_key, dir |-> path]

(***************************************************************************)
(* Lines 106-125: the credential block.  o is what the environment does:   *)
(* "ok", or which call raises.  The result carries the session fields as   *)
(* the block leaves them and google_api_key as line 125 leaves it.         *)
(***************************************************************************)
NeedsInit_Always(a) == TRUE

\* line 116: if st.session_state.app is None
NeedsInit(a) == a = NoApp

CredOutcomes(key, a) ==
    IF key = NoKey THEN {"skipped"}
    ELSE IF ~NeedsInit(a) THEN {"ok", "configure_raises"}
    ELSE {"ok", "configure_raises", "mkdtemp_raises", "construct_raises"}

CredFailures == {"configure_raises", "mkdtemp_raises", "construct_raises"}

ConfigFailed_KeepsApp(r) ==
    [r EXCEPT !.google_api_key = NoKey,
              !.notices = @ \cup {"Failed to configure Google API"}]

\* lines 122-125: the except branch
ConfigFailed(r) ==
    [r EXCEPT !.app = NoApp, !.google_api_key = NoKey,
              !.notices = @ \cup {"Failed to configure Google API"}]

CredentialWith(key, o, base) ==
    LET configured == [base EXCEPT !.configure = 1,
                                   !.notices = {"Google API Key configured!"}]
        newdir == dirs_made + 1
        \* mkdtemp returns a new, empty directory
        made == [configured EXCEPT !.mkdtemp = 1, !.db_path = newdir,
                                   !.dirs_made = newdir, !.kb = {}]
        called == [made EXCEPT !.construct = 1, !.constructed = @ + 1]
    IN  IF key = NoKey THEN base
        ELSE IF o = "configure_raises"
             THEN ConfigFailed([base EXCEPT !.configure = 1])
        ELSE IF ~NeedsInit(app) THEN configured
        ELSE IF o = "mkdtemp_raises"
             THEN ConfigFailed([configured EXCEPT !.mkdtemp = 1])
        ELSE IF o = "construct_raises" THEN ConfigFailed(called)
        ELSE [called EXCEPT !.app = embedchain_bot(newdir, key),
                            !.notices = @ \cup {"App initialized."}]

CredentialBlock(key, o) ==
    CredentialWith(key, o,
        [app |-> app, db_path |-> db_path, dirs_made |-> dirs_made,
         constructed |-> constructed, kb |-> kb, google_api_key |-> key,
         outcome |-> o, notices |-> {},
         configure |-> 0, mkdtemp |-> 0, construct |-> 0])

(***************************************************************************)
(* Lines 64-84: fetch_video_data.  env is what the transcript service      *)
(* does for this call: whether list_transcripts returns, the tracks it     *)
(* offers, whether each fetch returns, the order in which the union of     *)
(* language keys is iterated, and the text of the segments.                *)
(***************************************************************************)
Languages == {"en", "de"}
Tracks == [language : Languages, is_generated : BOOLEAN]

\* the return value of the except branch, line 84
NoTranscript == [body |-> "No transcript available for this video.", language |-> "", video_id |-> <<>>]

\* first_language is the language code the iteration of the key union yields
\* first, so it is one of the languages offered
TranscriptEnvs ==
    { env \in [list_ok : BOOLEAN, tracks : SUBSET Tracks, en_fetch_ok : BOOLEAN,
               first_language : Languages, fallback_fetch_ok : BOOLEAN,
               body : {"segments", "No transcript available for this video."}] :
        \/ env.tracks = {}
        \/ \E t \in env.tracks : t.language = env.first_language }

\* " ".join(entry["text"] ...) of the fetched track
transcript_text(env, video_id, track) ==
    IF env.body = "segments"
    THEN [body |-> "segments", language |-> track.language, video_id |-> video_id]
    ELSE NoTranscript

\* the text of the exception that line 83 reports
ErrorText(why) ==
    IF why = "extract_raises"
    THEN "Error fetching transcript: Invalid or unrecognized YouTube URL format."
    ELSE "Error fetching transcript"

FetchWith(ex, env) ==
    LET parse == IF ex.warned THEN {"Could not parse YouTube URL format reliably"} ELSE {}
        failure(ns, l, f, why) ==
            [transcript |-> NoTranscript, notices |-> ns \cup {ErrorText(why)},
             list |-> l, fetch |-> f, cause |-> why, language |-> ""]
        success(ns, f, track) ==
            [transcript |-> transcript_text(env, ex.id, track),
             notices |-> ns, list |-> 1, fetch |-> f, cause |-> "fetched",
             language |-> track.language]
        en == [language |-> "en", is_generated |-> TRUE]
        offered == { t.language : t \in env.tracks }
        \* find_transcript: the first language code, manual before generated
        manual == [language |-> env.first_language, is_generated |-> FALSE]
        fallback == IF manual \in env.tracks THEN manual
                    ELSE [language |-> env.first_language, is_generated |-> TRUE]
        warn == parse \cup {"English transcript not found"}
        \* fetch calls made before line 76 is reached
        tried == IF en \in env.tracks THEN 1 ELSE 0
    IN  IF ~ex.ok THEN failure(parse, 0, 0, "extract_raises")
        ELSE IF ~env.list_ok THEN failure(parse, 1, 0, "list_raises")
        ELSE IF en \in env.tracks /\ env.en_fetch_ok THEN success(parse, 1, en)
        ELSE IF offered = {} THEN failure(warn, 1, tried, "find_raises")
        ELSE IF ~env.fallback_fetch_ok
             THEN failure(warn, 1, tried + 1, "fetch_raises")
        ELSE success(warn, tried + 1, fallback)

\* ex above is the value (or the ValueError) of extract_video_id, line 67
fetch_video_data(video_url, env) == FetchWith(extract_video_id(video_url), env)

(***************************************************************************)
(* Lines 130-154: the body of "if st.button(...)", run on the session as   *)
(* the credential block c left it.  add is what app.add does.              *)
(***************************************************************************)
AddOutcomes == {"ok", "raises_ValueError", "raises"}

FetchReached_AnyUrl(c, url) ==
    c.app # NoApp /\ url # NoUrl

\* line 131: the condition under which the handler fetches the transcript
FetchReached(c, url) ==
    c.app # NoApp /\ url # NoUrl /\ url # current_video_url

TranscriptAvailable_Always(transcript) == TRUE

\* line 135
TranscriptAvailable(transcript) == transcript # NoTranscript

MarkLoaded_KeepsHistory(r, url) ==
    [r EXCEPT !.add = 1,
              !.kb = @ \cup {url},
              !.current_video_url = url,
              !.dropped = 0,
              !.notices = @ \cup {"Added video to knowledge base!"},
              !.result = "loaded"]

\* lines 141-144, app.add having returned
MarkLoaded(r, url) ==
    [r EXCEPT !.add = 1,
              !.kb = @ \cup {url},
              !.current_video_url = url,
              !.messages = <<>>,
              !.msg_video = <<>>,
              !.dropped = Len(r.messages),
              !.notices = @ \cup {"Added video to knowledge base!"},
              !.result = "loaded"]

AddRaised_Advances(r, url, add) ==
    [MarkLoaded(r, url) EXCEPT
        !.notices = r.notices \cup {"Error processing video"},
        !.result = "add_raised"]

\* lines 147-150, app.add having raised
AddRaised(r, url, add) ==
    [r EXCEPT !.add = 1,
              !.notices = @ \cup {IF add = "raises_ValueError"
                                  THEN "Invalid YouTube URL"
                                  ELSE "Error processing video"},
              !.result = "add_raised"]

LoadWith(c, url, clicked, f, add) ==
    LET same == [current_video_url |-> current_video_url, messages |-> messages,
                 msg_video |-> msg_video, kb |-> c.kb, notices |-> {},
                 list |-> 0, fetch |-> 0, add |-> 0, result |-> "none",
                 cause |-> "none", dropped |-> 0]
        fetched == [same EXCEPT !.notices = f.notices, !.list = f.list,
                                !.fetch = f.fetch, !.cause = f.cause]
    IN  IF ~clicked THEN same
        ELSE IF FetchReached(c, url)
        THEN IF TranscriptAvailable(f.transcript)
             THEN IF add = "ok" THEN MarkLoaded(fetched, url)
                  ELSE AddRaised(fetched, url, add)
             ELSE [fetched EXCEPT
                     !.notices = @ \cup {"No transcript found for video"},
                     !.result = "no_transcript"]
        ELSE IF c.app = NoApp
        THEN [same EXCEPT !.notices = {"Please enter a valid API key first."},
                          !.result = "no_app"]
        ELSE IF url = current_video_url
        THEN [same EXCEPT !.notices = {"This video is already loaded."},
                          !.result = "already_loaded"]
        ELSE same

\* f above is the value of fetch_video_data(video_url_input), line 134
LoadHandler(c, url, clicked, env, add) ==
    LoadWith(c, url, clicked, fetch_video_data(url, env), add)

(***************************************************************************)
(* Lines 160-202: the chat interface, run on the session as the sidebar    *)
(* left it.  prompt is NoPrompt when nothing was submitted; r is what      *)
(* app.chat does.                                                          *)
(***************************************************************************)
NoPrompt == ""

\* app.chat returns a str, an object with a .response attribute, or another
\* object; or it raises
Responses ==
    { [raises |-> FALSE, is_str |-> TRUE,  has_response |-> FALSE, response |-> "", str |-> "answer"],
      [raises |-> FALSE, is_str |-> FALSE, has_response |-> TRUE,  response |-> "answer", str |-> "<object>"],
      [raises |-> FALSE, is_str |-> FALSE, has_response |-> FALSE, response |-> "", str |-> "<object>"],
      [raises |-> TRUE,  is_str |-> FALSE, has_response |-> FALSE, response |-> "", str |-> "chat failed"] }

\* line 188
answer(r) == IF r.is_str THEN r.str
             ELSE IF r.has_response THEN r.response ELSE r.str

\* a message; content is the string prefix + body
Turn(role, prefix, body) == [role |-> role, content |-> [prefix |-> prefix, body |-> body]]

ChatEnabled_NoGate(c, cur) == TRUE

\* lines 160-164: the else branch is reached
ChatEnabled(c, cur) == cur # NoUrl /\ c.app # NoApp

\* lines 197-198
ErrorTurn(r) == Turn("assistant", "Sorry, an error occurred: ", r.str)

Exchange_OnlyOnSuccess(prompt, r) ==
    IF r.raises THEN <<Turn("user", "", prompt)>>
    ELSE <<Turn("user", "", prompt), Turn("assistant", "", answer(r))>>

Exchange_RollsBack(prompt, r) ==
    IF r.raises THEN <<ErrorTurn(r)>>
    ELSE <<Turn("user", "", prompt), Turn("assistant", "", answer(r))>>

\* lines 175 and 185-202: the two messages a submitted prompt appends
Exchange(prompt, r) ==
    <<Turn("user", "", prompt),
      IF r.raises THEN ErrorTurn(r) ELSE Turn("assistant", "", answer(r))>>

ChatInterface(c, cur, msgs, mv, prompt, r) ==
    LET closed(n, why) == [messages |-> msgs, msg_video |-> mv, notices |-> {n},
                           chat |-> 0, result |-> why]
    IN  IF ~ChatEnabled(c, cur)
        THEN IF cur = NoUrl
             THEN closed("Please enter a YouTube URL and click 'Load Video'", "no_video")
             ELSE closed("App not initialized. Please check API key.", "no_app")
        ELSE IF prompt = NoPrompt
        THEN closed("Currently chatting with", "none")
        ELSE [messages |-> msgs \o Exchange(prompt, r),
              msg_video |-> mv \o [i \in 1..Len(Exchange(prompt, r)) |-> cur],
              notices |-> {"Currently chatting with"} \cup
                          (IF r.raises THEN {"Sorry, an error occurred"} ELSE {}),
              chat |-> 1,
              result |-> IF r.raises THEN "chat_raised" ELSE "answered"]

\* the results of LoadWith that report a failure of the load
FailedLoads == {"no_transcript", "add_raised"}

(***************************************************************************)
(* One run of the script.  key and url are the widget values the run       *)
(* reads, clicked is the value st.button returns, prompt the value         *)
(* st.chat_input returns; o, env, add and r are the environment.           *)
(***************************************************************************)
Run(op, key, url, clicked, prompt, o, env, add, r) ==
    \E c \in {CredentialBlock(key, o)} :
    \E l \in {LoadHandler(c, url, clicked, env, add)} :
    \E ch \in {ChatInterface(c, l.current_video_url, l.messages, l.msg_video, prompt, r)} :
        /\ c.dirs_made <= MaxDirs
        /\ Len(ch.messages) <= MaxTurns
        /\ api_key_input' = key
        /\ video_url_input' = url
        /\ app' = c.app
        /\ db_path' = c.db_path
        /\ dirs_made' = c.dirs_made
        /\ constructed' = c.constructed
        /\ load_disabled' = (c.google_api_key = NoKey \/ url = NoUrl)
        /\ current_video_url' = l.current_video_url
        /\ kb' = l.kb
        /\ messages' = ch.messages
        /\ msg_video' = ch.msg_video
        /\ notices' = c.notices \cup l.notices \cup ch.notices
        /\ calls' = [configure |-> c.configure, mkdtemp |-> c.mkdtemp,
                     construct |-> c.construct, list |-> l.list,
                     fetch |-> l.fetch, add |-> l.add, chat |-> ch.chat]
        /\ last' = [op |-> op, cred |-> c.outcome, load |-> l.result,
                    cause |-> l.cause, dropped |-> l.dropped, chat |-> ch.result,
                    retry |-> (op = "load" /\ last.op = "load"
                               /\ last.load \in FailedLoads)]
        /\ ever_failed' = (ever_failed \/ c.outcome \in CredFailures)
        /\ keys_seen' = keys_seen \cup (IF key = NoKey THEN {} ELSE {key})
        /\ UNCHANGED <<ex_url, ex_res, fe_url, fe_env, fe_res>>

\* values for the parts of the environment a run does not reach
AnyEnv == [list_ok |-> FALSE, tracks |-> {}, en_fetch_ok |-> FALSE,
           first_language |-> "en", fallback_fetch_ok |-> FALSE, body |-> "segments"]
AnyResponse == [raises |-> TRUE, is_str |-> FALSE, has_response |-> FALSE,
                response |-> "", str |-> "chat failed"]

\* the transcript service as the session meets it: one environment for every
\* path through fetch_video_data
EnGenerated == [language |-> "en", is_generated |-> TRUE]
DeManual    == [language |-> "de", is_generated |-> FALSE]
ServiceEnv(list_ok, tracks, en_ok, first, fb_ok, body) ==
    [list_ok |-> list_ok, tracks |-> tracks, en_fetch_ok |-> en_ok,
     first_language |-> first, fallback_fetch_ok |-> fb_ok, body |-> body]
SessionEnvs ==
    { ServiceEnv(FALSE, {}, FALSE, "en", FALSE, "segments"),
      ServiceEnv(TRUE, {}, FALSE, "en", FALSE, "segments"),
      ServiceEnv(TRUE, {EnGenerated}, TRUE, "en", TRUE, "segments"),
      ServiceEnv(TRUE, {EnGenerated}, TRUE, "en", TRUE, "No transcript available for this video."),
      ServiceEnv(TRUE, {EnGenerated}, FALSE, "en", TRUE, "segments"),
      ServiceEnv(TRUE, {EnGenerated}, FALSE, "en", FALSE, "segments"),
      ServiceEnv(TRUE, {DeManual}, TRUE, "de", TRUE, "segments"),
      ServiceEnv(TRUE, {DeManual}, TRUE, "de", FALSE, "segments"),
      ServiceEnv(TRUE, {EnGenerated, DeManual}, FALSE, "de", TRUE, "segments") }

\* the transcript service and app.add are inputs of the runs that reach them:
\* app.add is reached only with a transcript to add, line 135
Delivers(url, env) == fetch_video_data(url, env).transcript # NoTranscript

\* the user edits the API key field
EnterKey ==
    \E key \in (Keys \cup {NoKey}) \ {api_key_input} :
      \E o \in CredOutcomes(key, app) :
        Run("key", key, video_url_input, FALSE, NoPrompt, o, AnyEnv, "ok", AnyResponse)

\* the user edits the URL field
EnterUrl ==
    \E url \in (SessionUrls \cup {NoUrl}) \ {video_url_input} :
      \E o \in CredOutcomes(api_key_input, app) :
        Run("url", api_key_input, url, FALSE, NoPrompt, o, AnyEnv, "ok", AnyResponse)

\* the script is run again with nothing changed (R, or a browser reload)
Rerun ==
    \E o \in CredOutcomes(api_key_input, app) :
        Run("rerun", api_key_input, video_url_input, FALSE, NoPrompt, o, AnyEnv, "ok", AnyResponse)

\* the user clicks Load Video, which was rendered enabled; a button that this
\* run renders disabled may or may not report the click
ClickLoad ==
    /\ ~load_disabled
    /\ \E o \in CredOutcomes(api_key_input, app) :
       \E clicked \in IF o \in CredFailures THEN BOOLEAN ELSE {TRUE} :
       \E env \in IF FetchReached(CredentialBlock(api_key_input, o), video_url_input)
                  THEN SessionEnvs ELSE {AnyEnv} :
       \E add \in IF Delivers(video_url_input, env) THEN AddOutcomes ELSE {"ok"} :
        Run("load", api_key_input, video_url_input, clicked, NoPrompt, o, env, add, AnyResponse)

\* the user submits a chat prompt; whether the run reaches st.chat_input is
\* decided by the gate of lines 160-164
SubmitChat ==
    \E prompt \in Prompts, r \in Responses :
      \E o \in CredOutcomes(api_key_input, app) :
        Run("chat", api_key_input, video_url_input, FALSE, prompt, o, AnyEnv, "ok", r)

Init ==
    /\ app = NoApp
    /\ db_path = 0
    /\ current_video_url = NoUrl
    /\ messages = <<>>
    /\ api_key_input = NoKey
    /\ video_url_input = NoUrl
    /\ load_disabled = TRUE
    /\ dirs_made = 0
    /\ constructed = 0
    /\ kb = {}
    /\ notices = {"Please enter a YouTube URL and click 'Load Video'"}
    /\ calls = [configure |-> 0, mkdtemp |-> 0, construct |-> 0, list |-> 0,
                fetch |-> 0, add |-> 0, chat |-> 0]
    /\ last = [op |-> "start", cred |-> "skipped", load |-> "none",
               cause |-> "none", dropped |-> 0, chat |-> "no_video",
               retry |-> FALSE]
    /\ msg_video = <<>>
    /\ ever_failed = FALSE
    /\ keys_seen = {}
    /\ ex_url = <<>>
    /\ ex_res = <<>>
    /\ fe_url = NoUrl
    /\ fe_env = AnyEnv
    /\ fe_res = <<>>

Next == EnterKey \/ EnterUrl \/ Rerun \/ ClickLoad \/ SubmitChat

Spec == Init /\ [][Next]_vars

(***************************************************************************)
(* extract_video_id on its own: one call on a URL put together from a      *)
(* prefix and up to MaxPieces pieces.                                      *)
(***************************************************************************)
MaxPieces == 4

Id11 == <<"d","Q","w","4","w","9","W","g","X","c","Q">>
Pieces == { Id11, <<"a","b">>, SepAmp, SepQ, SepV, SepShorts, ShortLinkMarker, SepSlash }
Scheme == <<"h","t","t","p","s",":","/","/">>
Prefixes == { Scheme \o <<"w","w","w",".">> \o WatchMarker,
              Scheme \o <<"w","w","w",".">> \o ShortsMarker,
              Scheme \o ShortLinkMarker,
              Scheme \o <<"v","i","d",".","i","o","/">>,
              <<>> }
ExtractUrls ==
    { p \o Concat(t) : p \in Prefixes,
                       t \in UNION { [1..n -> Pieces] : n \in 0..MaxPieces } }

InitExtract ==
    /\ Init!1 /\ Init!2 /\ Init!3 /\ Init!4 /\ Init!5 /\ Init!6 /\ Init!7
    /\ Init!8 /\ Init!9 /\ Init!10 /\ Init!11 /\ Init!12 /\ Init!13
    /\ Init!14 /\ Init!15 /\ Init!16
    /\ Init!19 /\ Init!20 /\ Init!21
    /\ ex_url \in ExtractUrls
    /\ ex_res = <<>>

ExtractCall ==
    /\ ex_res = <<>>
    /\ ex_res' = <<extract_video_id(ex_url)>>
    /\ UNCHANGED <<ex_url, session_vars, fe_url, fe_env, fe_res>>

NextExtract == ExtractCall

SpecExtract == InitExtract /\ [][NextExtract]_vars

(***************************************************************************)
(* fetch_video_data on its own: one call, for a URL of the session and     *)
(* any behaviour of the transcript service.                                *)
(***************************************************************************)
InitFetch ==
    /\ Init!1 /\ Init!2 /\ Init!3 /\ Init!4 /\ Init!5 /\ Init!6 /\ Init!7
    /\ Init!8 /\ Init!9 /\ Init!10 /\ Init!11 /\ Init!12 /\ Init!13
    /\ Init!14 /\ Init!15 /\ Init!16 /\ Init!17 /\ Init!18
    /\ fe_url \in SessionUrls
    /\ fe_env \in TranscriptEnvs
    /\ fe_res = <<>>

FetchCall ==
    /\ fe_res = <<>>
    /\ fe_res' = <<fetch_video_data(fe_url, fe_env)>>
    /\ UNCHANGED <<fe_url, fe_env, ex_url, ex_res, session_vars>>

NextFetch == FetchCall

SpecFetch == InitFetch /\ [][NextFetch]_vars

(***************************************************************************)
(* Properties of the session.  last, notices and calls describe the run    *)
(* that led to the current state, so a property of one run is a property   *)
(* of a step: unprimed variables are the session before the run, primed    *)
(* ones the session after it.                                              *)
(***************************************************************************)

\* C1, as amended: a Load Video run for the URL that is the loaded video, with
\* the gateway handle in place when the handler runs, leaves messages and
\* current_video_url alone, emits "This video is already loaded." and calls
\* neither the transcript service nor app.add; and the Load Video run that
\* follows a successful load does not call app.add.
C1_ReloadIsNoOp ==
    [][ /\ ( /\ last'.op = "load"
             /\ current_video_url # NoUrl
             /\ video_url_input' = current_video_url
             /\ app' # NoApp )
          => /\ messages' = messages
             /\ current_video_url' = current_video_url
             /\ "This video is already loaded." \in notices'
             /\ calls'.list = 0 /\ calls'.fetch = 0 /\ calls'.add = 0
        /\ ( last.op = "load" /\ last.load = "loaded" /\ last'.op = "load" )
          => calls'.add = 0 ]_vars

\* C1 witness: a Load Video run answered with the already-loaded notice
C1_Witness ==
    /\ last.op = "load" /\ last.load = "already_loaded"
    /\ video_url_input = current_video_url /\ messages # <<>>

\* C1 as stated: in addition, app.add is never called by both of two
\* consecutive Load Video runs for the same URL
C1_Original ==
    [][ /\ ( /\ last'.op = "load"
             /\ current_video_url # NoUrl
             /\ video_url_input' = current_video_url
             /\ app' # NoApp )
          => /\ messages' = messages
             /\ current_video_url' = current_video_url
             /\ "This video is already loaded." \in notices'
             /\ calls'.list = 0 /\ calls'.fetch = 0 /\ calls'.add = 0
        /\ ( /\ last.op = "load" /\ last'.op = "load"
             /\ video_url_input' = video_url_input
             /\ calls.add = 1 )
          => calls'.add = 0 ]_vars

\* C2: right after a successful load of a URL other than the loaded one the
\* history is empty and the loaded video is the new URL, and every turn in
\* the history was recorded while the currently loaded video was loaded.
C2_NewVideoClearsHistory ==
    /\ last.load = "loaded" =>
          /\ messages = <<>>
          /\ current_video_url = video_url_input
          /\ current_video_url \in kb
    /\ Len(msg_video) = Len(messages)
    /\ \A i \in DOMAIN msg_video : msg_video[i] = current_video_url

\* C2 witness: a load that replaced a video and dropped its turns
C2_Witness ==
    /\ last.load = "loaded" /\ last.dropped > 0
    /\ kb = {UrlA, UrlB} /\ messages = <<>>

\* C3: a chat submission that meets no loaded video or no gateway handle at
\* the gate calls app.chat zero times and appends nothing, and a non-empty
\* history implies a loaded video.
C3_ChatOnlyWhenLoaded ==
    /\ [](messages # <<>> => current_video_url # NoUrl)
    /\ [][ ( last'.op = "chat" /\ (current_video_url' = NoUrl \/ app' = NoApp) )
             => /\ calls'.chat = 0
                /\ messages' = messages ]_vars

\* C3 witness: a chat submission rejected because no video is loaded, with the
\* gateway handle in place
C3_Witness ==
    /\ last.op = "chat" /\ last.chat = "no_video"
    /\ app # NoApp /\ current_video_url = NoUrl /\ calls.chat = 0

\* C4: a chat submission whose app.chat call raises appends the user turn and
\* then one assistant turn with the error message, keeps the earlier turns in
\* place and leaves the loaded video and the gateway handle alone.
C4_ChatFailureAppendsTwo ==
    [][ ( last'.op = "chat" /\ calls'.chat = 1 /\ "Sorry, an error occurred" \in notices' )
          => /\ Len(messages') = Len(messages) + 2
             /\ SubSeq(messages', 1, Len(messages)) = messages
             /\ messages'[Len(messages) + 1] =
                   [role |-> "user", content |-> [prefix |-> "", body |-> "question"]]
             /\ messages'[Len(messages) + 2].role = "assistant"
             /\ messages'[Len(messages) + 2].content.prefix = "Sorry, an error occurred: "
             /\ current_video_url' = current_video_url
             /\ (app # NoApp => app' = app) ]_vars

\* C4 witness: a failed chat call on a history that already had turns
C4_Witness ==
    /\ last.op = "chat" /\ last.chat = "chat_raised"
    /\ Len(messages) = 4
    /\ messages[4].content.prefix = "Sorry, an error occurred: "
    /\ messages[2].content.prefix = ""

\* C5: as long as no credential block has failed and one credential only has
\* been entered, embedchain_bot has been called exactly once and the session
\* holds the handle of that call; a run whose credential block succeeds keeps
\* an existing handle, and a run that only re-runs the script changes no
\* session field.
C5_GatewayBuiltOnce ==
    /\ []( (~ever_failed /\ Cardinality(keys_seen) = 1)
             => /\ constructed = 1
                /\ dirs_made = 1
                /\ db_path = 1
                /\ \E k \in keys_seen : app = embedchain_bot(1, k) )
    /\ [][ (app # NoApp /\ last'.cred \in {"ok", "skipped"})
             => /\ app' = app
                /\ db_path' = db_path
                /\ calls'.construct = 0 /\ calls'.mkdtemp = 0 ]_vars
    /\ [][ (app # NoApp /\ last'.op = "rerun" /\ last'.cred = "ok")
             => /\ current_video_url' = current_video_url
                /\ messages' = messages
                /\ kb' = kb ]_vars

\* C5 witness: the only credential re-supplied by a re-run, late in a session
\* that has loaded a video and chatted
C5_Witness ==
    /\ ~ever_failed /\ Cardinality(keys_seen) = 1
    /\ last.op = "rerun" /\ last.cred = "ok"
    /\ constructed = 1 /\ app # NoApp
    /\ messages # <<>>

\* C6: a run whose credential block fails leaves no gateway handle, and while
\* there is none no run treats a video as loaded (neither the chat interface
\* nor the already-loaded notice) or reaches the transcript service, app.add
\* or app.chat.
C6_ConfigFailureResets ==
    /\ last.cred \in CredFailures => app = NoApp
    /\ app = NoApp =>
          /\ "Currently chatting with" \notin notices
          /\ "This video is already loaded." \notin notices
          /\ calls.list = 0 /\ calls.fetch = 0
          /\ calls.add = 0 /\ calls.chat = 0
          /\ last.load \notin {"loaded", "already_loaded", "no_transcript", "add_raised"}
          /\ last.chat \notin {"answered", "chat_raised", "none"}

\* C6 witness: the credential block fails under a chat submission in a session
\* that had a gateway, a loaded video and a history
C6_Witness ==
    /\ last.cred = "configure_raises" /\ last.op = "chat"
    /\ app = NoApp /\ dirs_made >= 1
    /\ current_video_url # NoUrl /\ messages # <<>>

\* C7: a Load Video run for which the transcript service delivers no
\* transcript emits the no-transcript warning, does not call app.add and
\* leaves the loaded video, the history and the gateway handle alone.
C7_UnavailableChangesNothing ==
    [][ ( /\ last'.op = "load"
          /\ last'.cause \in {"list_raises", "find_raises", "fetch_raises"} )
          => /\ "No transcript found for video" \in notices'
             /\ calls'.add = 0
             /\ current_video_url' = current_video_url
             /\ messages' = messages
             /\ app' = app /\ db_path' = db_path
             /\ kb' = kb ]_vars

\* C7 witness: no transcript for a second URL while a video with a history is
\* loaded
C7_Witness ==
    /\ last.op = "load" /\ last.load = "no_transcript"
    /\ last.cause = "fetch_raises" /\ calls.fetch = 2
    /\ current_video_url # NoUrl /\ video_url_input # current_video_url
    /\ messages # <<>>

\* C8 as stated: a Load Video run whose URL extract_video_id rejects reports
\* the invalid URL, without the no-transcript warning, calls neither the
\* transcript service nor app.add and changes no session field.
C8_Original ==
    [][ ( last'.op = "load" /\ last'.cause = "extract_raises" )
          => /\ \/ "Invalid YouTube URL" \in notices'
                \/ ErrorText("extract_raises") \in notices'
             /\ "No transcript found for video" \notin notices'
             /\ calls'.list = 0 /\ calls'.fetch = 0 /\ calls'.add = 0
             /\ current_video_url' = current_video_url
             /\ messages' = messages
             /\ app' = app /\ db_path' = db_path ]_vars

\* C9: a Load Video run in which app.add raises reports an error, keeps
\* current_video_url as it was and does not clear the history.
C9_AddFailureDoesNotAdvance ==
    [][ ( last'.op = "load" /\ last'.load = "add_raised" )
          => /\ calls'.add = 1
             /\ {"Invalid YouTube URL", "Error processing video"} \cap notices' # {}
             /\ "Added video to knowledge base!" \notin notices'
             /\ current_video_url' = current_video_url
             /\ current_video_url' # video_url_input'
             /\ messages' = messages ]_vars

\* C9 witness: app.add raises for a second URL while a video with a history is
\* loaded
C9_Witness ==
    /\ last.op = "load" /\ last.load = "add_raised"
    /\ current_video_url # NoUrl /\ video_url_input # current_video_url
    /\ messages # <<>>

(***************************************************************************)
(* Properties of extract_video_id, under SpecExtract.                      *)
(***************************************************************************)

\* the marker of the first rule of extract_video_id that matches
MatchingMarker(url) ==
    IF Contains(url, WatchMarker) THEN WatchMarker
    ELSE IF Contains(url, ShortsMarker) THEN ShortsMarker
    ELSE ShortLinkMarker

\* s up to its first "?" or "&"
UpToSeparator(s) ==
    LET stops == { i \in 1..Len(s) : <<s[i]>> \in {SepQ, SepAmp} }
    IN  IF stops = {} THEN s
        ELSE SubSeq(s, 1, (CHOOSE i \in stops : \A j \in stops : i <= j) - 1)

\* what follows the matching marker, up to the next "?" or "&"
IdAfterMarker(url) ==
    UpToSeparator(Drop(url, FirstAt(url, MatchingMarker(url)) + Len(MatchingMarker(url))))

\* C10 as stated: for a URL with a watch, shorts or short-link marker,
\* extract_video_id returns what follows the first matching marker up to the
\* next "?" or "&", whatever follows the identifier.
C10_Original ==
    ( /\ ex_res # <<>>
      /\ \/ Contains(ex_url, WatchMarker)
         \/ Contains(ex_url, ShortsMarker)
         \/ Contains(ex_url, ShortLinkMarker) )
      => /\ ex_res[1].ok
         /\ ex_res[1].id = IdAfterMarker(ex_url)

\* C11 as stated: extract_video_id raises or returns a non-empty identifier,
\* never the empty string.
C11_Original ==
    (ex_res # <<>> /\ ex_res[1].ok) => ex_res[1].id # <<>>

\* the text after the last "/" of url
LastSegment(url) ==
    LET slashes == { i \in 1..Len(url) : url[i] = "/" }
    IN  IF slashes = {} THEN url
        ELSE Drop(url, (CHOOSE i \in slashes : \A j \in slashes : j <= i) + 1)

\* C12: for a URL with none of the three markers, extract_video_id returns the
\* last "/"-separated segment cut at its first "?" or "&" when the URL has a
\* "/" and that text is exactly 11 characters long, and raises otherwise.
C12_FallbackNeedsElevenChars ==
    ( /\ ex_res # <<>>
      /\ ~Contains(ex_url, WatchMarker)
      /\ ~Contains(ex_url, ShortsMarker)
      /\ ~Contains(ex_url, ShortLinkMarker) )
      => IF /\ \E i \in 1..Len(ex_url) : ex_url[i] = "/"
            /\ Len(UpToSeparator(LastSegment(ex_url))) = 11
         THEN ex_res[1].ok /\ ex_res[1].id = UpToSeparator(LastSegment(ex_url))
         ELSE ~ex_res[1].ok

\* C12 witness: the fallback salvages an 11-character segment that a query
\* string follows
C12_Witness ==
    /\ ex_res # <<>>
    /\ ~Contains(ex_url, WatchMarker)
    /\ ~Contains(ex_url, ShortsMarker)
    /\ ~Contains(ex_url, ShortLinkMarker)
    /\ ex_res[1].ok /\ ex_res[1].warned
    /\ ex_res[1].id = Id11
    /\ Len(LastSegment(ex_url)) > 11

(***************************************************************************)
(* Further properties of the session.                                      *)
(***************************************************************************)

\* C13: after a Load Video run that ended in an invalid URL, no transcript or
\* a failed app.add, the URL is not the loaded one and the Load Video run that
\* follows, with the gateway handle in place, fetches again instead of
\* answering "already loaded"; after a chat run whose app.chat raised, the
\* chat interface is open and the chat run that follows, if its credential
\* block does not fail, calls app.chat.
C13_FailuresCanBeRetried ==
    /\ []( (last.op = "load" /\ last.load \in FailedLoads)
             => video_url_input # current_video_url )
    /\ [][ ( /\ last.op = "load" /\ last.load \in FailedLoads
             /\ last'.op = "load" /\ app' # NoApp )
             => /\ last'.load \in FailedLoads \cup {"loaded"}
                /\ "This video is already loaded." \notin notices'
                /\ last'.cause # "none" ]_vars
    /\ []( last.chat = "chat_raised"
             => /\ current_video_url # NoUrl /\ app # NoApp
                /\ "Currently chatting with" \in notices )
    /\ [][ ( /\ last.chat = "chat_raised"
             /\ last'.op = "chat" /\ last'.cred \notin CredFailures )
             => calls'.chat = 1 ]_vars

\* C13 witness: the retry of a failed load loads a second video
C13_Witness ==
    /\ last.retry /\ last.load = "loaded"
    /\ current_video_url = video_url_input
    /\ kb = {UrlA, UrlB}

\* C14 as stated: no run attempts an external operation more than once.
C14_Original ==
    /\ calls.configure <= 1 /\ calls.mkdtemp <= 1 /\ calls.construct <= 1
    /\ calls.list <= 1 /\ calls.fetch <= 1
    /\ calls.add <= 1 /\ calls.chat <= 1

(***************************************************************************)
(* Properties of fetch_video_data, under SpecFetch.                        *)
(***************************************************************************)

\* C15 as stated: when the transcript service offers an English track,
\* generated or manual, the transcript that fetch_video_data returns is an
\* English one.
C15_Original ==
    ( /\ fe_res # <<>>
      /\ fe_res[1].cause = "fetched"
      /\ \E t \in fe_env.tracks : t.language = "en" )
      => fe_res[1].language = "en"

(***************************************************************************)
(* Properties of the gateway and of the history, under Spec.               *)
(***************************************************************************)

\* C16 as stated: in every state with a gateway handle, reached by a run whose
\* credential block configured the entered credential, the handle was built
\* with that credential.
C16_Original ==
    (app # NoApp /\ last.cred = "ok") => app.api_key = api_key_input

\* C17 as stated: a session creates at most one temporary directory, and
\* db_path is recorded only while a gateway handle built on it exists.
C17_Original ==
    /\ dirs_made <= 1
    /\ db_path # 0 => (app # NoApp /\ app.dir = db_path)

\* C18 as stated: the store behind the gateway handle holds no transcript
\* other than that of the currently loaded video.
C18_Original ==
    app # NoApp => kb \subseteq {current_video_url}

\* C19 as stated: whenever a video URL is recorded as loaded and there is a
\* gateway handle, the store behind the handle holds the transcript of that
\* video.
C19_Original ==
    (current_video_url # NoUrl /\ app # NoApp) => current_video_url \in kb

\* C20: after every run the history has even length and alternates user,
\* assistant from a user turn on; a chat submission that reaches app.chat
\* appends one user turn and then one assistant turn, whether the call returns
\* or raises; and a run either leaves the history as it was, appends such a
\* pair, or empties it while loading a URL other than the loaded one.
C20_HistoryWellFormed ==
    /\ []( /\ Len(messages) % 2 = 0
           /\ \A i \in DOMAIN messages :
                 messages[i].role = IF i % 2 = 1 THEN "user" ELSE "assistant" )
    /\ [][ calls'.chat = 1
             => /\ Len(messages') = Len(messages) + 2
                /\ SubSeq(messages', 1, Len(messages)) = messages
                /\ messages'[Len(messages) + 1].role = "user"
                /\ messages'[Len(messages) + 2].role = "assistant"
                /\ last'.chat \in {"answered", "chat_raised"} ]_vars
    /\ [][ \/ messages' = messages
           \/ calls'.chat = 1
           \/ /\ messages' = <<>>
              /\ last'.load = "loaded"
              /\ current_video_url' # current_video_url ]_vars

\* C20 witness: a history of a failed exchange followed by an answered one
C20_Witness ==
    /\ Len(messages) = 4
    /\ last.op = "chat" /\ last.chat = "answered"
    /\ messages[2].content.prefix = "Sorry, an error occurred: "
    /\ messages[4].content = [prefix |-> "", body |-> "answer"]

====
